---- MODULE Spec2Model ----
(***************************************************************************)
(* Model of the arbitrary-precision number core of jarvis:                 *)
(*   utils/regex.py, utils/big_number.py,                                  *)
(*   utils/big_number_processing_storage.py, data_structures/stack.py,     *)
(*   data_structures/node.py, classes/descriptors/default_descriptor.py,   *)
(*   big_numbers/number.py.                                                *)
(* A Python str is modelled as a sequence of one-character strings.        *)
(* A local variable of the source that is read more than once is a         *)
(* parameter of the operator that continues the function from there.       *)
(***************************************************************************)
EXTENDS Integers, Sequences, FiniteSets, TLC

\* ------------------------------------------------------------------ bounds
\* longest raw string handed to a constructor or to the storage factory
MaxRaw == 5
\* most digits (integer and fractional digits together) of a non-negative
\* addition operand
MaxDigits == 3
\* most digits of a negative addition operand
MaxNegDigits == 2

\* ------------------------------------------------------------- characters
DigitChars == {"0", "1", "9"}
Alphabet == DigitChars \cup {".", "-", "a"}
\* Python's None, and the mark of a call that raised nothing
None == [cls |-> "NoneType"]
NoError == "no error"

\* ord() of the characters of the alphabet
ord(c) ==
  CASE c = "0" -> 48
    [] c = "1" -> 49
    [] c = "2" -> 50
    [] c = "3" -> 51
    [] c = "4" -> 52
    [] c = "5" -> 53
    [] c = "6" -> 54
    [] c = "7" -> 55
    [] c = "8" -> 56
    [] c = "9" -> 57
    [] c = "-" -> 45
    [] c = "." -> 46
    [] c = "a" -> 97

\* ASCII[number + 48]: only the keys 48..57 exist
number_to_char(number) ==
  CASE number = 0 -> "0"
    [] number = 1 -> "1"
    [] number = 2 -> "2"
    [] number = 3 -> "3"
    [] number = 4 -> "4"
    [] number = 5 -> "5"
    [] number = 6 -> "6"
    [] number = 7 -> "7"
    [] number = 8 -> "8"
    [] number = 9 -> "9"
    [] OTHER -> "KeyError"

\* all strings over S of length 0..n
StringsUpTo(S, n) == UNION {[1..k -> S] : k \in 0..n}

\* --------------------------------------------------------- utils/regex.py
\* \d of the pattern, over the alphabet of the model
IsDigit(c) == c \in {"0", "1", "2", "3", "4", "5", "6", "7", "8", "9"}

\* the string after the optional leading "-" of the pattern
Unsigned(value) ==
  IF Len(value) > 0 /\ value[1] = "-" THEN Tail(value) ELSE value

\* re.fullmatch(r"-?\d+", value)
is_int(value) ==
  LET body == Unsigned(value)
  IN  Len(body) >= 1 /\ \A i \in 1..Len(body) : IsDigit(body[i])

\* re.fullmatch(r"-?\d+\.\d+", value)
is_float(value) ==
  LET body == Unsigned(value)
  IN  \E k \in 1..Len(body) :
        /\ body[k] = "."
        /\ k > 1
        /\ k < Len(body)
        /\ \A i \in 1..Len(body) : i # k => IsDigit(body[i])

is_number(value) == is_float(value) \/ is_int(value)

\* ------------------------------------------------------------ str.split(".")
RECURSIVE str_split(_)
str_split(string) ==
  IF \A i \in 1..Len(string) : string[i] # "."
  THEN <<string>>
  ELSE LET k == CHOOSE i \in 1..Len(string) :
                  string[i] = "." /\ \A j \in 1..(i - 1) : string[j] # "."
       IN  <<SubSeq(string, 1, k - 1)>> \o str_split(SubSeq(string, k + 1, Len(string)))

\* ------------------------------------------------ data_structures/stack.py
\* A Stack is its chain of node values from the top pointer down, and its size.
StackNew == [pointer |-> <<>>, size |-> 0]

StackAdd(stack, value) ==
  [pointer |-> <<value>> \o stack.pointer, size |-> stack.size + 1]

\* pop: the value returned (or the error raised) and the stack afterwards
StackPop(stack) ==
  IF stack.pointer = <<>>
  THEN [value |-> "OverflowError", stack |-> stack]
  ELSE [value |-> Head(stack.pointer),
        stack |-> [pointer |-> Tail(stack.pointer), size |-> stack.size - 1]]

StackLen(stack) == stack.size

\* --------------------------------------------------- utils/big_number.py
\* for v in amount: stack.add(v)
RECURSIVE fill_stack(_, _)
fill_stack(stack, amount) ==
  IF amount = <<>> THEN stack
  ELSE fill_stack(StackAdd(stack, Head(amount)), Tail(amount))

\* for _ in range(min_lenght): pop both stacks, add the two digits and the
\* carry, push result % 10, carry result // 10
RECURSIVE sum_pairs(_, _, _, _, _)
\* accumulated = result // 10; result %= 10; result_amount.add(result)
pair_carry(n, first_stack, second_stack, result_amount, result) ==
  sum_pairs(n - 1, first_stack, second_stack,
            StackAdd(result_amount, result % 10), result \div 10)

\* result = accumulated + ord(first_stack.pop()) + ord(second_stack.pop()) - ord("0") * 2
pair_result(n, p1, p2, result_amount, accumulated) ==
  pair_carry(n, p1.stack, p2.stack, result_amount,
             accumulated + ord(p1.value) + ord(p2.value) - (ord("0") * 2))

sum_pairs(n, first_stack, second_stack, result_amount, accumulated) ==
  IF n = 0
  THEN [first_stack |-> first_stack, second_stack |-> second_stack,
        result_amount |-> result_amount, accumulated |-> accumulated]
  ELSE pair_result(n, StackPop(first_stack), StackPop(second_stack),
                   result_amount, accumulated)

\* for _ in range(remain_lenght): pop the longer stack, add the carry
RECURSIVE sum_rest(_, _, _, _)
\* accumulated = result // 10; result %= 10; result_amount.add(result)
rest_carry(n, stack, result_amount, result) ==
  sum_rest(n - 1, stack, StackAdd(result_amount, result % 10), result \div 10)

\* result = accumulated + ord(stack.pop()) - ord("0")
rest_result(n, p, result_amount, accumulated) ==
  rest_carry(n, p.stack, result_amount, accumulated + ord(p.value) - ord("0"))

sum_rest(n, stack, result_amount, accumulated) ==
  IF n = 0
  THEN [result_amount |-> result_amount, accumulated |-> accumulated]
  ELSE rest_result(n, StackPop(stack), result_amount, accumulated)

\* for _ in range(len(result_amount)): string_result += number_to_char(pop())
RECURSIVE pop_to_string(_, _, _)
pop_append(n, p, string_result) ==
  pop_to_string(n - 1, p.stack, string_result \o <<number_to_char(p.value)>>)

pop_to_string(n, result_amount, string_result) ==
  IF n = 0 THEN string_result
  ELSE pop_append(n, StackPop(result_amount), string_result)

\* while string_result[0] == "0" and len(string_result) > 1: drop the first
RECURSIVE strip_zeros(_)
strip_zeros(string_result) ==
  IF string_result[1] = "0" /\ Len(string_result) > 1
  THEN strip_zeros(Tail(string_result))
  ELSE string_result

min(a, b) == IF a < b THEN a ELSE b
max(a, b) == IF a > b THEN a ELSE b

\* sum_longer with the carry of the pairs forgotten in its first branch
sum_longer_lost_carry(first_len, second_len, remain_lenght, pairs) ==
  IF first_len # second_len
  THEN IF first_len > second_len
       THEN sum_rest(remain_lenght, pairs.first_stack, pairs.result_amount, 0)
       ELSE sum_rest(remain_lenght, pairs.second_stack,
                     pairs.result_amount, pairs.accumulated)
  ELSE [result_amount |-> pairs.result_amount,
        accumulated |-> pairs.accumulated]

\* if first_len != second_len: the remaining digits of the longer amount
sum_longer(first_len, second_len, remain_lenght, pairs) ==
  IF first_len # second_len
  THEN IF first_len > second_len
       THEN sum_rest(remain_lenght, pairs.first_stack,
                     pairs.result_amount, pairs.accumulated)
       ELSE sum_rest(remain_lenght, pairs.second_stack,
                     pairs.result_amount, pairs.accumulated)
  ELSE [result_amount |-> pairs.result_amount,
        accumulated |-> pairs.accumulated]

\* min_lenght = min(...); remain_lenght = max(...) - min_lenght; both loops
sum_lengths(first_amount, second_amount, first_len, second_len, accumulated) ==
  sum_longer(first_len, second_len,
             max(first_len, second_len) - min(first_len, second_len),
             sum_pairs(min(first_len, second_len),
                       fill_stack(StackNew, first_amount),
                       fill_stack(StackNew, second_amount),
                       StackNew, accumulated))

\* the stacks and the two loops that both passes share
sum_digits(first_amount, second_amount, accumulated) ==
  sum_lengths(first_amount, second_amount, Len(first_amount),
              Len(second_amount), accumulated)

\* the result string of the fractional pass and its carry
remain_processing(s) ==
  [result |-> strip_zeros(pop_to_string(StackLen(s.result_amount),
                                        s.result_amount, <<>>)),
   accumulated |-> s.accumulated]

\* the fractional pass: RemainProcessing(result, accumulated)
make_sum_remain_part(first_amount, second_amount) ==
  remain_processing(sum_digits(first_amount, second_amount, 0))

\* the result string of the integer pass
integer_string(result_amount) ==
  strip_zeros(pop_to_string(StackLen(result_amount), result_amount, <<>>))

\* push_carry without the push of the final carry
push_carry_dropped(s) == integer_string(s.result_amount)

\* if accumulated > 0: result_amount.add(accumulated)
push_carry(s) ==
  integer_string(IF s.accumulated > 0
                 THEN StackAdd(s.result_amount, s.accumulated)
                 ELSE s.result_amount)

\* the integer pass, seeded with the carry of the fractional pass
make_sum_integer_part(first_amount, second_amount, accumulated) ==
  push_carry(sum_digits(first_amount, second_amount, accumulated))

join_big_number_parts(integer_part, remain_part) ==
  integer_part \o <<".">> \o remain_part

\* ------------------------------ utils/big_number_processing_storage.py
\* the storage with the two parts of the split taken in the wrong order
storage_of_parts_swapped(parts) ==
  [raised |-> NoError, before_dot |-> parts[2], after_dot |-> parts[1]]

\* BigNumberProcessingStorage(value[0], value[1])
storage_of_parts(parts) ==
  [raised |-> NoError, before_dot |-> parts[1], after_dot |-> parts[2]]

\* the factory without its final raise: any other string is taken as an integer
big_number_processing_storage_factory_unchecked(value) ==
  IF is_float(value)
  THEN storage_of_parts(str_split(value))
  ELSE [raised |-> NoError, before_dot |-> value, after_dot |-> <<"0">>]

\* the factory with an empty default for after_dot
big_number_processing_storage_factory_empty_default(value) ==
  IF is_float(value)
  THEN storage_of_parts(str_split(value))
  ELSE IF is_int(value)
  THEN [raised |-> NoError, before_dot |-> value, after_dot |-> <<>>]
  ELSE [raised |-> "ValueError", before_dot |-> None, after_dot |-> None]

\* BigNumberProcessingStorage(before_dot, after_dot = "0"), or the error raised
big_number_processing_storage_factory(value) ==
  IF is_float(value)
  THEN storage_of_parts(str_split(value))
  ELSE IF is_int(value)
  THEN [raised |-> NoError, before_dot |-> value, after_dot |-> <<"0">>]
  ELSE [raised |-> "ValueError", before_dot |-> None, after_dot |-> None]

\* sum_normalize that joins the two parts whatever the fractional result
sum_normalize_always_joined(remain_result, integer_result) ==
  [remain_result |-> remain_result,
   integer_result |-> integer_result,
   result |-> join_big_number_parts(integer_result, remain_result.result)]

\* -------------------------------------- utils/big_number.py: big_number_sum
\* if remain_result.result == "0": return integer_result; else the joined parts.
\* The record keeps the two intermediate results beside the string returned.
sum_normalize(remain_result, integer_result) ==
  [remain_result |-> remain_result,
   integer_result |-> integer_result,
   result |-> IF remain_result.result = <<"0">>
              THEN integer_result
              ELSE join_big_number_parts(integer_result, remain_result.result)]

\* sum_integer with the integer pass left at its default carry of 0
sum_integer_unseeded(first_number_proc, second_number_proc, remain_result) ==
  sum_normalize(remain_result,
                make_sum_integer_part(first_number_proc.before_dot,
                                      second_number_proc.before_dot, 0))

\* integer_result = make_sum_integer_part(..., remain_result.accumulated)
sum_integer(first_number_proc, second_number_proc, remain_result) ==
  sum_normalize(remain_result,
                make_sum_integer_part(first_number_proc.before_dot,
                                      second_number_proc.before_dot,
                                      remain_result.accumulated))

\* remain_result = make_sum_remain_part(after_dot, after_dot)
sum_remain(first_number_proc, second_number_proc) ==
  sum_integer(first_number_proc, second_number_proc,
              make_sum_remain_part(first_number_proc.after_dot,
                                   second_number_proc.after_dot))

\* big_number_sum on the value strings of its two operands
big_number_sum(first_value, second_value) ==
  sum_remain(big_number_processing_storage_factory(first_value),
             big_number_processing_storage_factory(second_value))

\* the converter taking the wrong side of the dot
string_float_to_int_converter_after_dot(string) == str_split(string)[2]

string_float_to_int_converter(string) == str_split(string)[1]

\* the converter appending the dot without a fractional digit
string_int_to_float_converter_bare_dot(string) == string \o <<".">>

string_int_to_float_converter(string) == string \o <<".", "0">>

\* the string stored, or the error raised
string_value_to_int(value_str) ==
  IF is_float(value_str)
  THEN [raised |-> NoError, value |-> string_float_to_int_converter(value_str)]
  ELSE IF is_int(value_str)
  THEN [raised |-> NoError, value |-> value_str]
  ELSE [raised |-> "ValueError", value |-> None]

\* string_value_to_float that rebuilds a decimal input from its integer part
string_value_to_float_truncating(value_str) ==
  IF is_int(value_str)
  THEN [raised |-> NoError, value |-> string_int_to_float_converter(value_str)]
  ELSE IF is_float(value_str)
  THEN [raised |-> NoError,
        value |-> string_int_to_float_converter(string_float_to_int_converter(value_str))]
  ELSE [raised |-> "ValueError", value |-> None]

string_value_to_float(value_str) ==
  IF is_int(value_str)
  THEN [raised |-> NoError, value |-> string_int_to_float_converter(value_str)]
  ELSE IF is_float(value_str)
  THEN [raised |-> NoError, value |-> value_str]
  ELSE [raised |-> "ValueError", value |-> None]

\* ------------------------------------------------- big_numbers/number.py
\* A Numeric Value is [cls, _value]; a str argument is [cls |-> "str", str].
Str(string) == [cls |-> "str", str |-> string]

\* the value getter of Int and of Float; value.value of any other object
\* that has the attribute
value_of(number) ==
  IF "_value" \in DOMAIN number THEN number._value ELSE number.value

\* hasattr(value, "value")
has_value(value) == "_value" \in DOMAIN value \/ "value" \in DOMAIN value

\* str() of a native int
RECURSIVE digits_of(_)
digits_of(n) ==
  IF n < 10 THEN <<number_to_char(n)>>
  ELSE Append(digits_of(n \div 10), number_to_char(n % 10))

int__str__(n) == IF n < 0 THEN <<"-">> \o digits_of(0 - n) ELSE digits_of(n)

\* str() of the native float mantissa * 10 ^ exponent, whose digits are ds
\* and whose decimal point is after the first decpt of them: the shortest
\* repr, in exponent notation when decpt is above 16 or below -3
float_repr(sign, ds, exponent, decpt) ==
  IF decpt > 16 \/ decpt < -3
  THEN sign \o <<Head(ds)>>
         \o (IF Len(ds) > 1 THEN <<".">> \o Tail(ds) ELSE <<>>)
         \o <<"e", IF decpt > 0 THEN "+" ELSE "-">>
         \o (IF decpt - 1 < 10 /\ 1 - decpt < 10 THEN <<"0">> ELSE <<>>)
         \o digits_of(IF decpt > 0 THEN decpt - 1 ELSE 1 - decpt)
  ELSE IF exponent >= 0
  THEN sign \o ds \o [i \in 1..exponent |-> "0"] \o <<".", "0">>
  ELSE IF decpt > 0
  THEN sign \o SubSeq(ds, 1, decpt) \o <<".">> \o SubSeq(ds, decpt + 1, Len(ds))
  ELSE sign \o <<"0", ".">> \o [i \in 1..(0 - decpt) |-> "0"] \o ds

float__str__(x) ==
  IF x.special # <<>> THEN x.special
  ELSE IF x.mantissa < 0
  THEN float_repr(<<"-">>, digits_of(0 - x.mantissa), x.exponent,
                  Len(digits_of(0 - x.mantissa)) + x.exponent)
  ELSE float_repr(<<>>, digits_of(x.mantissa), x.exponent,
                  Len(digits_of(x.mantissa)) + x.exponent)

\* str(value) of a native argument
py_str(value) ==
  CASE value.cls = "str" -> value.str
    [] value.cls = "int" -> int__str__(value.int)
    [] value.cls = "bool" -> IF value.bool THEN <<"T", "r", "u", "e">>
                             ELSE <<"F", "a", "l", "s", "e">>
    [] value.cls = "float" -> float__str__(value)

\* isinstance(value, str | float | int); a bool is an int
is_native(value) == value.cls \in {"str", "float", "int", "bool"}

\* an Int setter that stores the string of a number as it came
Int_set_value_unconverted(value) ==
  IF is_native(value)
  THEN [raised |-> IF is_number(py_str(value)) THEN NoError ELSE "ValueError",
        value |-> py_str(value)]
  ELSE IF has_value(value)
  THEN string_value_to_int(value_of(value))
  ELSE [raised |-> "AttributeError", value |-> None]

\* Int.value setter: the _value stored, or the error raised
Int_set_value(value) ==
  IF is_native(value)
  THEN string_value_to_int(py_str(value))
  ELSE IF has_value(value)
  THEN string_value_to_int(value_of(value))
  ELSE [raised |-> "AttributeError", value |-> None]

\* Float.value setter
Float_set_value(value) ==
  IF is_native(value)
  THEN string_value_to_float(py_str(value))
  ELSE IF has_value(value)
  THEN string_value_to_float(value_of(value))
  ELSE [raised |-> "AttributeError", value |-> None]

\* the object a constructor leaves, or None with the error its setter raised
constructed(cls, set) ==
  IF set.raised = NoError
  THEN [raised |-> NoError, obj |-> [cls |-> cls, _value |-> set.value]]
  ELSE [raised |-> set.raised, obj |-> None]

\* Int(value)
Int__init__(value) == constructed("Int", Int_set_value(value))

\* Float(value)
Float__init__(value) == constructed("Float", Float_set_value(value))

\* an __add__ without its second if: a decimal-shaped result returns None
add_returned_int_only(sum) ==
  [engine |-> sum,
   returned |-> IF is_int(sum.result) THEN Int__init__(Str(sum.result)).obj
                ELSE None]

\* if is_int(result): return Int(result); if is_float(result): return
\* Float(result); otherwise the method returns None
add_returned(sum) ==
  [engine |-> sum,
   returned |-> IF is_int(sum.result) THEN Int__init__(Str(sum.result)).obj
                ELSE IF is_float(sum.result) THEN Float__init__(Str(sum.result)).obj
                ELSE None]

\* Int.__add__
Int__add__(self, other) ==
  add_returned(big_number_sum(value_of(self), value_of(other)))

\* Float.__add__
Float__add__(self, other) ==
  add_returned(big_number_sum(value_of(self), value_of(other)))

\* self + other
number__add__(self, other) ==
  IF self.cls = "Int" THEN Int__add__(self, other) ELSE Float__add__(self, other)

\* ---------------------------------------------------------------- inputs
\* digit strings of length 1..n
DigitStrings(n) == UNION {[1..k -> DigitChars] : k \in 1..n}

\* integer-shaped strings of at most n digits behind the sign
IntStrings(sign, n) == {sign \o d : d \in DigitStrings(n)}

\* decimal-shaped strings of at most n digits in all behind the sign
FloatStrings(sign, n) ==
  UNION {{sign \o i \o <<".">> \o f : f \in DigitStrings(n - Len(i))} :
           i \in DigitStrings(n - 1)}

\* the Numeric Values the constructors give for those strings
Operands ==
  {Int__init__(Str(s)).obj :
     s \in IntStrings(<<>>, MaxDigits) \cup IntStrings(<<"-">>, MaxNegDigits)}
    \cup
  {Float__init__(Str(s)).obj :
     s \in FloatStrings(<<>>, MaxDigits) \cup FloatStrings(<<"-">>, MaxNegDigits)}

\* the raw strings handed to the constructors and to the factory
RawStrings == StringsUpTo(Alphabet, MaxRaw)

\* ----------------------------------------------------------------- state
VARIABLES
  pc,      \* which call was made last
  arg,     \* the raw string handed to a constructor or to the factory
  obj,     \* the Numeric Value constructed from arg, or None
  copy,    \* the Numeric Value constructed from obj, or None
  proc,    \* the storage the factory returned for arg, or None
  raised,  \* the error the last call raised, or None
  first,   \* left operand of the addition
  second,  \* right operand of the addition
  engine,  \* big_number_sum's record for first + second, or None
  total,   \* the Numeric Value first + second returned, or None
  heap,    \* the __dict__ of every object that has an identity, by address
  frame,   \* the local variables of each thread's running call
  log      \* the calls made so far, with what each returned or raised

vars ==
  <<pc, arg, obj, copy, proc, raised, first, second, engine, total,
    heap, frame, log>>

\* ------------------------------- construction and splitting of one input
Init ==
  /\ pc = "input"
  /\ arg \in RawStrings
  /\ obj = None /\ copy = None /\ proc = None /\ raised = NoError
  /\ first = None /\ second = None /\ engine = None /\ total = None
  /\ heap = <<>> /\ frame = <<>> /\ log = <<>>

\* the outcome of a constructor call on arg
Construct(r) == obj' = r.obj /\ raised' = r.raised

\* Int(arg)
IntNew ==
  /\ pc = "input"
  /\ Construct(Int__init__(Str(arg)))
  /\ pc' = "Int"
  /\ UNCHANGED <<arg, copy, proc, first, second, engine, total, heap, frame, log>>

\* Float(arg)
FloatNew ==
  /\ pc = "input"
  /\ Construct(Float__init__(Str(arg)))
  /\ pc' = "Float"
  /\ UNCHANGED <<arg, copy, proc, first, second, engine, total, heap, frame, log>>

\* the outcome of a constructor call on the Numeric Value obj
ConstructFrom(r) == copy' = r.obj /\ raised' = r.raised

\* Int(obj)
IntFrom ==
  /\ pc \in {"Int", "Float"}
  /\ obj # None
  /\ ConstructFrom(Int__init__(obj))
  /\ pc' = "IntFrom"
  /\ UNCHANGED <<arg, obj, proc, first, second, engine, total, heap, frame, log>>

\* Float(obj)
FloatFrom ==
  /\ pc \in {"Int", "Float"}
  /\ obj # None
  /\ ConstructFrom(Float__init__(obj))
  /\ pc' = "FloatFrom"
  /\ UNCHANGED <<arg, obj, proc, first, second, engine, total, heap, frame, log>>

\* the outcome of the factory call on arg
Stored(r) ==
  /\ raised' = r.raised
  /\ proc' = IF r.raised = NoError
             THEN [before_dot |-> r.before_dot, after_dot |-> r.after_dot]
             ELSE None

\* big_number_processing_storage_factory(arg)
Factory ==
  /\ pc = "input"
  /\ Stored(big_number_processing_storage_factory(arg))
  /\ pc' = "factory"
  /\ UNCHANGED <<arg, obj, copy, first, second, engine, total, heap, frame, log>>

Next == IntNew \/ FloatNew \/ IntFrom \/ FloatFrom \/ Factory

Spec == Init /\ [][Next]_vars

\* ------------------------------------------ specification of the addition
InitSum ==
  /\ pc = "operands"
  /\ first \in Operands
  /\ second \in Operands
  /\ engine = None
  /\ total = None
  /\ raised = NoError
  /\ arg = None /\ obj = None /\ copy = None /\ proc = None
  /\ heap = <<>> /\ frame = <<>> /\ log = <<>>

\* the outcome of first + second
Returned(r) == engine' = r.engine /\ total' = r.returned

\* first + second with first an Int
IntAdd ==
  /\ pc = "operands"
  /\ first.cls = "Int"
  /\ Returned(Int__add__(first, second))
  /\ pc' = "added"
  /\ UNCHANGED <<arg, obj, copy, proc, raised, first, second, heap, frame, log>>

\* first + second with first a Float
FloatAdd ==
  /\ pc = "operands"
  /\ first.cls = "Float"
  /\ Returned(Float__add__(first, second))
  /\ pc' = "added"
  /\ UNCHANGED <<arg, obj, copy, proc, raised, first, second, heap, frame, log>>

NextSum == IntAdd \/ FloatAdd

SpecSum == InitSum /\ [][NextSum]_vars

\* ------------------------------------------------- objects on the heap
\* The heap maps the address of an object to its __dict__.  A thread
\* allocates in an arena of its own, at the first slot it has not used.
Address(thread, slot) == [arena |-> thread, slot |-> slot]

RECURSIVE free_slot(_, _, _)
free_slot(memory, thread, slot) ==
  IF Address(thread, slot) \in DOMAIN memory
  THEN free_slot(memory, thread, slot + 1)
  ELSE slot

\* the address of the next object the thread creates
allocate(memory, thread) == Address(thread, free_slot(memory, thread, 1))

\* a new object, with an empty __dict__
object__new__(memory, self) == memory @@ (self :> <<>>)

\* instance.name = value of a plain attribute
setattr(memory, instance, name, value) ==
  [memory EXCEPT ![instance] = (name :> value) @@ @]

\* instance.name of a plain attribute
getattr(memory, instance, name) == memory[instance][name]

\* ------------------------------- classes/descriptors/default_descriptor.py
\* a descriptor that keeps the pointer of Stack in one place for all stacks
DefaultDescriptor__set__one_pointer(memory, storage_name, instance, value) ==
  IF storage_name = "pointer"
  THEN [a \in DOMAIN memory |->
          IF a = instance \/ "pointer" \in DOMAIN memory[a]
          THEN ("pointer" :> value) @@ memory[a]
          ELSE memory[a]]
  ELSE [memory EXCEPT ![instance] = (storage_name :> value) @@ @]

\* instance.__dict__[self.storage_name] = value
DefaultDescriptor__set__(memory, storage_name, instance, value) ==
  [memory EXCEPT ![instance] = (storage_name :> value) @@ @]

\* instance.__dict__[self.storage_name]
DefaultDescriptor__get__(memory, storage_name, instance) ==
  memory[instance][storage_name]

\* ------------------------------------------------- data_structures/node.py
\* self.value = value; self.next = next; self.prev = prev
Node__init__(memory, self, value, next, prev) ==
  DefaultDescriptor__set__(
    DefaultDescriptor__set__(
      DefaultDescriptor__set__(object__new__(memory, self),
                               "value", self, value),
      "next", self, next),
    "prev", self, prev)

\* ------------------------------------- data_structures/stack.py, on the heap
\* self.pointer = None; self.size = 0
Stack__init__(memory, self) ==
  setattr(DefaultDescriptor__set__(object__new__(memory, self),
                                   "pointer", self, None),
          self, "size", 0)

\* add that leaves the pointer on the old top of a non-empty stack
add_link_pointer_kept(memory, self, node) ==
  IF DefaultDescriptor__get__(memory, "pointer", self) = None
  THEN DefaultDescriptor__set__(memory, "pointer", self, node)
  ELSE DefaultDescriptor__set__(memory, "prev",
         DefaultDescriptor__get__(memory, "pointer", self), node)

\* node.next = self.pointer; self.pointer = node
add_next(memory, self, node) ==
  DefaultDescriptor__set__(
    DefaultDescriptor__set__(memory, "next", node,
      DefaultDescriptor__get__(memory, "pointer", self)),
    "pointer", self, node)

\* if self.pointer is None: self.pointer = node; return
\* self.pointer.prev = node
add_link(memory, self, node) ==
  IF DefaultDescriptor__get__(memory, "pointer", self) = None
  THEN DefaultDescriptor__set__(memory, "pointer", self, node)
  ELSE add_next(
         DefaultDescriptor__set__(memory, "prev",
           DefaultDescriptor__get__(memory, "pointer", self), node),
         self, node)

\* self.size += 1
add_size(memory, self, node) ==
  add_link(setattr(memory, self, "size", getattr(memory, self, "size") + 1),
           self, node)

\* node = Node(value)
Stack_add(memory, thread, self, value) ==
  add_size(Node__init__(memory, allocate(memory, thread), value, None, None),
           self, allocate(memory, thread))

\* self.size -= 1; return node.value
pop_size(memory, self, node) ==
  [raised |-> NoError,
   value |-> DefaultDescriptor__get__(memory, "value", node),
   memory |-> setattr(memory, self, "size", getattr(memory, self, "size") - 1)]

\* if self.pointer: self.pointer.prev = None
pop_prev(memory, self, node) ==
  IF DefaultDescriptor__get__(memory, "pointer", self) # None
  THEN pop_size(
         DefaultDescriptor__set__(memory, "prev",
           DefaultDescriptor__get__(memory, "pointer", self), None),
         self, node)
  ELSE pop_size(memory, self, node)

\* node = self.pointer; self.pointer = self.pointer.next
pop_pointer(memory, self, node) ==
  pop_prev(
    DefaultDescriptor__set__(memory, "pointer", self,
      DefaultDescriptor__get__(memory, "next", node)),
    self, node)

\* pop that counts the size down before it looks at the pointer
Stack_pop_size_first(memory, self) ==
  IF DefaultDescriptor__get__(memory, "pointer", self) = None
  THEN [raised |-> "OverflowError", value |-> None,
        memory |-> setattr(memory, self, "size",
                           getattr(memory, self, "size") - 1)]
  ELSE pop_pointer(memory, self,
                   DefaultDescriptor__get__(memory, "pointer", self))

\* if self.pointer is None: raise OverflowError("Stack is empty")
Stack_pop(memory, self) ==
  IF DefaultDescriptor__get__(memory, "pointer", self) = None
  THEN [raised |-> "OverflowError", value |-> None, memory |-> memory]
  ELSE pop_pointer(memory, self,
                   DefaultDescriptor__get__(memory, "pointer", self))

\* the values from node down the chain of next
RECURSIVE list_from(_, _)
list_from(memory, node) ==
  IF node = None THEN <<>>
  ELSE <<DefaultDescriptor__get__(memory, "value", node)>>
         \o list_from(memory, DefaultDescriptor__get__(memory, "next", node))

Stack__list__(memory, self) ==
  list_from(memory, DefaultDescriptor__get__(memory, "pointer", self))

Stack__len__(memory, self) == getattr(memory, self, "size")

\* while not node is None: if node.value == value: return True;
\* node = node.next; and False after the loop
RECURSIVE find_from(_, _, _)
find_from(memory, node, value) ==
  IF node = None THEN FALSE
  ELSE IF DefaultDescriptor__get__(memory, "value", node) = value THEN TRUE
  ELSE find_from(memory, DefaultDescriptor__get__(memory, "next", node), value)

\* a find that looks at the top node only
Stack_find_top_only(memory, self, value) ==
  [returned |-> /\ DefaultDescriptor__get__(memory, "pointer", self) # None
                /\ DefaultDescriptor__get__(
                     memory, "value",
                     DefaultDescriptor__get__(memory, "pointer", self)) = value,
   memory |-> memory]

\* Stack.find: what it returns, and the heap it leaves
Stack_find(memory, self, value) ==
  [returned |-> find_from(memory, DefaultDescriptor__get__(memory, "pointer", self),
                          value),
   memory |-> memory]

\* --------------------------------------- specification of one Stack's calls
\* most calls made on the stack
MaxCalls == 5

\* the thread that makes the calls, and the stack it made
Caller == "main"
TheStack == Address(Caller, 1)

InitStack ==
  /\ pc = "Stack"
  /\ heap = Stack__init__(<<>>, TheStack)
  /\ log = <<>>
  /\ frame = <<>>
  /\ raised = NoError
  /\ arg = None /\ obj = None /\ copy = None /\ proc = None
  /\ first = None /\ second = None /\ engine = None /\ total = None

\* TheStack.add(value)
Add(value) ==
  /\ Len(log) < MaxCalls
  /\ heap' = Stack_add(heap, Caller, TheStack, value)
  /\ log' = Append(log, [op |-> "add", value |-> value, raised |-> NoError])
  /\ raised' = NoError
  /\ pc' = "add"
  /\ UNCHANGED <<arg, obj, copy, proc, first, second, engine, total, frame>>

\* the outcome of TheStack.pop()
Popped(r) ==
  /\ heap' = r.memory
  /\ log' = Append(log, [op |-> "pop", value |-> r.value, raised |-> r.raised])
  /\ raised' = r.raised

\* TheStack.pop()
Pop ==
  /\ Len(log) < MaxCalls
  /\ Popped(Stack_pop(heap, TheStack))
  /\ pc' = "pop"
  /\ UNCHANGED <<arg, obj, copy, proc, first, second, engine, total, frame>>

\* found = TheStack.find(value); arg and total keep value and found
Find(value) ==
  /\ heap' = Stack_find(heap, TheStack, value).memory
  /\ arg' = value
  /\ total' = Stack_find(heap, TheStack, value).returned
  /\ raised' = NoError
  /\ pc' = "find"
  /\ UNCHANGED <<obj, copy, proc, first, second, engine, frame, log>>

NextStack ==
  \/ \E value \in DigitChars : Add(value)
  \/ Pop
  \/ \E value \in DigitChars : Find(value)

SpecStack == InitStack /\ [][NextStack]_vars

\* ------------------------- specification of Numeric Values and their calls
\* most additions made in one behaviour
MaxSums == 1

\* what is handed to the calls: the strings "9", "0.9" and "1a", the
\* native int 9, the native float 1e16, None, and an object of another
\* class that has a value attribute
ValueInputs ==
  {Str(<<"9">>), Str(<<"0", ".", "9">>), Str(<<"1", "a">>),
   [cls |-> "int", int |-> 9],
   [cls |-> "float", special |-> <<>>, mantissa |-> 1, exponent |-> 16],
   None,
   [cls |-> "Holder", value |-> <<"9">>]}

\* the objects that the addresses in roots refer to; the others are freed
collect(memory, roots) == [a \in (DOMAIN memory \cap roots) |-> memory[a]]

\* the new object at its address, or the error the constructor raised
placed(memory, address, r) ==
  IF r.obj = None
  THEN [raised |-> r.raised, memory |-> memory, returned |-> None]
  ELSE [raised |-> r.raised, memory |-> memory @@ (address :> r.obj),
        returned |-> address]

\* Int(value) or Float(value), called by the thread
number__new__(memory, cls, value) ==
  placed(memory, allocate(memory, Caller),
         IF cls = "Int" THEN Int__init__(value) ELSE Float__init__(value))

\* a setter that empties the stored string when the conversion raised
assigned_or_cleared(memory, self, set) ==
  IF set.raised = NoError
  THEN [raised |-> NoError, memory |-> [memory EXCEPT ![self]._value = set.value]]
  ELSE [raised |-> set.raised, memory |-> [memory EXCEPT ![self]._value = <<>>]]

\* self._value = ..., unless the setter raised
assigned(memory, self, set) ==
  IF set.raised = NoError
  THEN [raised |-> NoError, memory |-> [memory EXCEPT ![self]._value = set.value]]
  ELSE [raised |-> set.raised, memory |-> memory]

\* self.value = value
number_set_value(memory, self, value) ==
  assigned(memory, self,
           IF memory[self].cls = "Int" THEN Int_set_value(value)
           ELSE Float_set_value(value))

\* an addition that stores the sum in self and returns self
number_add_in_place(memory, self, other) ==
  IF ~has_value(other)
  THEN [raised |-> "AttributeError", memory |-> memory, returned |-> None]
  ELSE [raised |-> NoError,
        memory |-> [memory EXCEPT ![self] = number__add__(memory[self], other).returned],
        returned |-> self]

\* self + other: other.value raises when other is no Numeric Value
number_add(memory, self, other) ==
  IF ~has_value(other)
  THEN [raised |-> "AttributeError", memory |-> memory, returned |-> None]
  ELSE placed(memory, allocate(memory, Caller),
              [raised |-> NoError, obj |-> number__add__(memory[self], other).returned])

\* __sub__, __mul__, __divmod__, __truediv__, __floordiv__, __pow__: the
\* body of each is pass, big_number_sub's too
UnsupportedOps ==
  {"__sub__", "__mul__", "__divmod__", "__truediv__", "__floordiv__", "__pow__"}

number__op__(op, self, other) == [raised |-> NoError, returned |-> None]

\* the names of the caller and the objects they are bound to
Names == {"first", "second"}
Named(name) == IF name = "first" THEN first ELSE second

InitValues ==
  /\ pc = "values"
  /\ heap = <<>>
  /\ first = None /\ second = None /\ total = None
  /\ log = <<>>
  /\ raised = NoError
  /\ arg = None /\ obj = None /\ copy = None /\ proc = None
  /\ engine = None /\ frame = <<>>

\* what is handed to a call: a string, a native value, another object or
\* the Numeric Value second
Handed == ValueInputs \cup {heap[a] : a \in {second} \ {None}}

\* name = the object constructed, unless the constructor raised
Bound(name, r) ==
  /\ raised' = r.raised
  /\ first' = IF name = "first" /\ r.returned # None THEN r.returned ELSE first
  /\ second' = IF name = "second" /\ r.returned # None THEN r.returned ELSE second
  /\ total' = None
  /\ heap' = collect(r.memory, {first', second'})

\* name = Int(value) or name = Float(value)
ValueNew(name, cls, value) ==
  /\ Bound(name, number__new__(heap, cls, value))
  /\ arg' = value
  /\ pc' = cls
  /\ UNCHANGED <<obj, copy, proc, engine, frame, log>>

\* name.value = value
ValueSet(name, value) ==
  /\ Named(name) # None
  /\ raised' = number_set_value(heap, Named(name), value).raised
  /\ heap' = number_set_value(heap, Named(name), value).memory
  /\ arg' = value
  /\ total' = None
  /\ pc' = "value"
  /\ UNCHANGED <<obj, copy, proc, engine, frame, log, first, second>>

\* the outcome of total = self + other
Added(r) ==
  /\ raised' = r.raised
  /\ total' = r.returned
  /\ heap' = collect(r.memory, {first, second, r.returned})
  /\ UNCHANGED <<first, second>>

\* total = self + other
ValueAdd(self, other) ==
  /\ Named(self) # None
  /\ Len(log) < MaxSums
  /\ Added(number_add(heap, Named(self), other))
  /\ log' = Append(log, "__add__")
  /\ arg' = other
  /\ pc' = "__add__"
  /\ UNCHANGED <<obj, copy, proc, engine, frame>>

\* first = total
ValueKeep ==
  /\ total # None
  /\ first' = total
  /\ total' = None
  /\ heap' = collect(heap, {first', second})
  /\ raised' = NoError
  /\ arg' = None
  /\ pc' = "keep"
  /\ UNCHANGED <<obj, copy, proc, engine, frame, log, second>>

\* total = self - other, self * other, ...
ValueOp(op, self, other) ==
  /\ Named(self) # None /\ Named(other) # None
  /\ raised' = number__op__(op, heap[Named(self)], heap[Named(other)]).raised
  /\ total' = number__op__(op, heap[Named(self)], heap[Named(other)]).returned
  /\ heap' = collect(heap, {first, second})
  /\ arg' = None
  /\ pc' = op
  /\ UNCHANGED <<obj, copy, proc, engine, frame, log, first, second>>

NextValues ==
  \/ \E name \in Names, cls \in {"Int", "Float"}, value \in Handed :
       ValueNew(name, cls, value)
  \/ \E name \in Names, value \in Handed : ValueSet(name, value)
  \/ \E self \in Names, other \in {heap[a] : a \in {first, second} \ {None}} :
       ValueAdd(self, other)
  \/ \E other \in ValueInputs : ValueAdd("first", other)
  \/ ValueKeep
  \/ \E op \in UnsupportedOps : ValueOp(op, "first", "second")

SpecValues == InitValues /\ [][NextValues]_vars

\* -------------- specification of big_number_sum, one stack call to a step
\* most digits of the first operand of the thread that adds alone; the
\* second operand is an integer of fewer digits, "0.9" or "1.01"
MaxStepDigits == 2

\* the local variables of a thread that is about to call big_number_sum
Locals(first_value, second_value) ==
  [pc |-> "big_number_sum", first_value |-> first_value,
   second_value |-> second_value, part |-> "", first_amount |-> <<>>,
   second_amount |-> <<>>, first_stack |-> None, second_stack |-> None,
   result_amount |-> None, i |-> 0, loop |-> "", popped |-> "", result |-> 0,
   accumulated |-> 0, string_result |-> <<>>, remain_result |-> None,
   returned |-> None, steps |-> 0]

\* the locals on entry to make_sum_remain_part or make_sum_integer_part:
\* first_stack = Stack()
entered(locals, part, first_amount, second_amount, accumulated, stack) ==
  [locals EXCEPT !.pc = "fill_first", !.part = part,
                 !.first_amount = first_amount, !.second_amount = second_amount,
                 !.accumulated = accumulated, !.first_stack = stack, !.i = 0]

\* the locals after a pop: those given, or the error the pop raised
after_pop(locals, r, next) ==
  IF r.raised = NoError THEN next ELSE [locals EXCEPT !.pc = r.raised]

\* one step of thread t
Stepped(t, memory, locals) ==
  /\ heap' = memory
  /\ frame' = [frame EXCEPT ![t] = [locals EXCEPT !.steps = @ + 1]]
  /\ UNCHANGED <<pc, arg, obj, copy, proc, raised, first, second, engine,
                 total, log>>

\* big_number_sum: the two factory calls, then make_sum_remain_part
Begin(t) ==
  /\ frame[t].pc = "big_number_sum"
  /\ Stepped(t, Stack__init__(heap, allocate(heap, t)),
             entered(frame[t], "remain",
                     big_number_processing_storage_factory(frame[t].first_value).after_dot,
                     big_number_processing_storage_factory(frame[t].second_value).after_dot,
                     0, allocate(heap, t)))

\* a fill loop that pushes the characters of first_amount last to first
FillFirstBackwards(t) ==
  /\ frame[t].pc = "fill_first"
  /\ IF frame[t].i < Len(frame[t].first_amount)
     THEN Stepped(t, Stack_add(heap, t, frame[t].first_stack,
                               frame[t].first_amount[Len(frame[t].first_amount)
                                                       - frame[t].i]),
                  [frame[t] EXCEPT !.i = @ + 1])
     ELSE Stepped(t, Stack__init__(heap, allocate(heap, t)),
                  [frame[t] EXCEPT !.pc = "fill_second", !.i = 0,
                                   !.second_stack = allocate(heap, t)])

\* for v in first_amount: first_stack.add(v); then second_stack = Stack()
FillFirst(t) ==
  /\ frame[t].pc = "fill_first"
  /\ IF frame[t].i < Len(frame[t].first_amount)
     THEN Stepped(t, Stack_add(heap, t, frame[t].first_stack,
                               frame[t].first_amount[frame[t].i + 1]),
                  [frame[t] EXCEPT !.i = @ + 1])
     ELSE Stepped(t, Stack__init__(heap, allocate(heap, t)),
                  [frame[t] EXCEPT !.pc = "fill_second", !.i = 0,
                                   !.second_stack = allocate(heap, t)])

\* for v in second_amount: second_stack.add(v); then result_amount =
\* Stack() and the lengths
FillSecond(t) ==
  /\ frame[t].pc = "fill_second"
  /\ IF frame[t].i < Len(frame[t].second_amount)
     THEN Stepped(t, Stack_add(heap, t, frame[t].second_stack,
                               frame[t].second_amount[frame[t].i + 1]),
                  [frame[t] EXCEPT !.i = @ + 1])
     ELSE Stepped(t, Stack__init__(heap, allocate(heap, t)),
                  [frame[t] EXCEPT !.pc = "pairs",
                                   !.i = min(Len(frame[t].first_amount),
                                             Len(frame[t].second_amount)),
                                   !.result_amount = allocate(heap, t)])

\* for _ in range(min_lenght): first_stack.pop(); after the loop,
\* if first_len != second_len: for _ in range(remain_lenght)
Pairs(t) ==
  /\ frame[t].pc = "pairs"
  /\ IF frame[t].i > 0
     THEN Stepped(t, Stack_pop(heap, frame[t].first_stack).memory,
                  after_pop(frame[t], Stack_pop(heap, frame[t].first_stack),
                            [frame[t] EXCEPT
                               !.pc = "pair_second",
                               !.popped = Stack_pop(heap, frame[t].first_stack).value]))
     ELSE IF Len(frame[t].first_amount) # Len(frame[t].second_amount)
     THEN Stepped(t, heap,
                  [frame[t] EXCEPT
                     !.pc = "rest",
                     !.i = max(Len(frame[t].first_amount),
                               Len(frame[t].second_amount))
                           - min(Len(frame[t].first_amount),
                                 Len(frame[t].second_amount))])
     ELSE Stepped(t, heap, [frame[t] EXCEPT !.pc = "carry"])

\* the locals after a digit step without its result %= 10
carried_not_reduced(locals, result, loop) ==
  [locals EXCEPT !.pc = "push", !.loop = loop, !.result = result,
                 !.accumulated = result \div 10]

\* the locals after result = ...; accumulated = result // 10; result %= 10
carried(locals, result, loop) ==
  [locals EXCEPT !.pc = "push", !.loop = loop, !.result = result % 10,
                 !.accumulated = result \div 10]

\* second_stack.pop(), and the sum of the two digits and the carry
PairSecond(t) ==
  /\ frame[t].pc = "pair_second"
  /\ Stepped(t, Stack_pop(heap, frame[t].second_stack).memory,
             after_pop(frame[t], Stack_pop(heap, frame[t].second_stack),
                       carried(frame[t],
                               frame[t].accumulated + ord(frame[t].popped)
                                 + ord(Stack_pop(heap, frame[t].second_stack).value)
                                 - (ord("0") * 2),
                               "pairs")))

\* result_amount.add(result), and back to the loop
Push(t) ==
  /\ frame[t].pc = "push"
  /\ Stepped(t, Stack_add(heap, t, frame[t].result_amount, frame[t].result),
             [frame[t] EXCEPT !.pc = frame[t].loop, !.i = @ - 1])

\* the stack of the longer amount
longer_stack(locals) ==
  IF Len(locals.first_amount) > Len(locals.second_amount)
  THEN locals.first_stack ELSE locals.second_stack

\* for _ in range(remain_lenght): the longer stack's pop(), and the sum of
\* the digit and the carry
Rest(t) ==
  /\ frame[t].pc = "rest"
  /\ IF frame[t].i > 0
     THEN Stepped(t, Stack_pop(heap, longer_stack(frame[t])).memory,
                  after_pop(frame[t], Stack_pop(heap, longer_stack(frame[t])),
                            carried(frame[t],
                                    frame[t].accumulated
                                      + ord(Stack_pop(heap, longer_stack(frame[t])).value)
                                      - ord("0"),
                                    "rest")))
     ELSE Stepped(t, heap, [frame[t] EXCEPT !.pc = "carry"])

\* a carry step that counts the last carry without pushing it
CarryNotPushed(t) ==
  /\ frame[t].pc = "carry"
  /\ IF frame[t].part = "integer" /\ frame[t].accumulated > 0
     THEN Stepped(t, heap,
                  [frame[t] EXCEPT
                     !.pc = "collect", !.string_result = <<>>,
                     !.i = Stack__len__(heap, frame[t].result_amount) + 1])
     ELSE Stepped(t, heap,
                  [frame[t] EXCEPT
                     !.pc = "collect", !.string_result = <<>>,
                     !.i = Stack__len__(heap, frame[t].result_amount)])

\* if accumulated > 0: result_amount.add(accumulated), in
\* make_sum_integer_part only; string_result = ""; range(len(result_amount))
Carry(t) ==
  /\ frame[t].pc = "carry"
  /\ IF frame[t].part = "integer" /\ frame[t].accumulated > 0
     THEN Stepped(t, Stack_add(heap, t, frame[t].result_amount,
                               frame[t].accumulated),
                  [frame[t] EXCEPT
                     !.pc = "collect", !.string_result = <<>>,
                     !.i = Stack__len__(heap, frame[t].result_amount) + 1])
     ELSE Stepped(t, heap,
                  [frame[t] EXCEPT
                     !.pc = "collect", !.string_result = <<>>,
                     !.i = Stack__len__(heap, frame[t].result_amount)])

\* string_result += number_to_char(result_amount.pop())
Collect(t) ==
  /\ frame[t].pc = "collect"
  /\ IF frame[t].i > 0
     THEN Stepped(t, Stack_pop(heap, frame[t].result_amount).memory,
                  after_pop(frame[t], Stack_pop(heap, frame[t].result_amount),
                            [frame[t] EXCEPT
                               !.i = @ - 1,
                               !.string_result =
                                  Append(@, number_to_char(
                                    Stack_pop(heap, frame[t].result_amount).value))]))
     ELSE Stepped(t, heap, [frame[t] EXCEPT !.pc = "strip"])

\* a strip loop that keeps the leading zero
StripKept(t) ==
  /\ frame[t].pc = "strip"
  /\ IF frame[t].string_result[1] = "0" /\ Len(frame[t].string_result) > 1
     THEN Stepped(t, heap, frame[t])
     ELSE Stepped(t, heap, [frame[t] EXCEPT !.pc = "return"])

\* while string_result[0] == "0" and len(string_result) > 1:
\*   string_result = string_result[1::]
Strip(t) ==
  /\ frame[t].pc = "strip"
  /\ IF frame[t].string_result[1] = "0" /\ Len(frame[t].string_result) > 1
     THEN Stepped(t, heap, [frame[t] EXCEPT !.string_result = Tail(@)])
     ELSE Stepped(t, heap, [frame[t] EXCEPT !.pc = "return"])

\* return RemainProcessing(...), and on into make_sum_integer_part; or
\* return string_result, and big_number_sum's return
Return(t) ==
  /\ frame[t].pc = "return"
  /\ IF frame[t].part = "remain"
     THEN Stepped(t, Stack__init__(heap, allocate(heap, t)),
                  entered([frame[t] EXCEPT
                             !.remain_result =
                                [result |-> frame[t].string_result,
                                 accumulated |-> frame[t].accumulated]],
                          "integer",
                          big_number_processing_storage_factory(frame[t].first_value).before_dot,
                          big_number_processing_storage_factory(frame[t].second_value).before_dot,
                          frame[t].accumulated, allocate(heap, t)))
     ELSE Stepped(t, heap,
                  [frame[t] EXCEPT
                     !.pc = "done",
                     !.returned =
                        sum_normalize(frame[t].remain_result,
                                      frame[t].string_result).result])

\* the values of the first operand of the thread that adds alone
StepOperands ==
  IntStrings(<<>>, MaxStepDigits) \cup FloatStrings(<<>>, MaxStepDigits)
    \cup IntStrings(<<"-">>, MaxStepDigits - 1)

\* the values of the operands of each of two threads that add at a time
ThreadOperands ==
  {<<<<"1", "9">>, <<"9", ".", "1">>>>,
   <<<<"0", ".", "9">>, <<"0", ".", "1">>>>,
   <<<<"-", "1">>, <<"0", "0", "9">>>>,
   <<<<"0", ".", "2", "5">>, <<"0", ".", "1">>>>}

InitSteps ==
  /\ \/ \E a \in StepOperands,
             b \in IntStrings(<<>>, MaxStepDigits - 1)
                     \cup {<<"0", ".", "9">>, <<"1", ".", "0", "1">>} :
          frame = [t \in {"main"} |-> Locals(a, b)]
     \/ \E m \in ThreadOperands, o \in ThreadOperands :
          frame = [t \in {"main", "other"} |->
                     IF t = "main" THEN Locals(m[1], m[2]) ELSE Locals(o[1], o[2])]
  /\ heap = <<>>
  /\ pc = "threads"
  /\ log = <<>>
  /\ raised = NoError
  /\ arg = None /\ obj = None /\ copy = None /\ proc = None
  /\ first = None /\ second = None /\ engine = None /\ total = None

\* the next step of thread t
ThreadStep(t) ==
  \/ Begin(t)
  \/ FillFirst(t)
  \/ FillSecond(t)
  \/ Pairs(t)
  \/ PairSecond(t)
  \/ Push(t)
  \/ Rest(t)
  \/ Carry(t)
  \/ Collect(t)
  \/ Strip(t)
  \/ Return(t)

NextSteps ==
  \/ \E t \in DOMAIN frame : Begin(t)
  \/ \E t \in DOMAIN frame : FillFirst(t)
  \/ \E t \in DOMAIN frame : FillSecond(t)
  \/ \E t \in DOMAIN frame : Pairs(t)
  \/ \E t \in DOMAIN frame : PairSecond(t)
  \/ \E t \in DOMAIN frame : Push(t)
  \/ \E t \in DOMAIN frame : Rest(t)
  \/ \E t \in DOMAIN frame : Carry(t)
  \/ \E t \in DOMAIN frame : Collect(t)
  \/ \E t \in DOMAIN frame : Strip(t)
  \/ \E t \in DOMAIN frame : Return(t)

SpecSteps == InitSteps /\ [][NextSteps]_vars

\* ----------------------------------- utils/data_structures/linked_list.py
\* utils/data_structures/node.py: Node(value), with next and prev None
ListNode(memory, self, value) ==
  memory @@ (self :> [value |-> value, next |-> None, prev |-> None])

\* LinkedList(): self.first = None; self.last = None; self.size = 0
LinkedList__init__(memory, self) ==
  memory @@ (self :> [first |-> None, last |-> None, size |-> 0])

\* LinkedList.append, with new_node the address of Node(value)
LinkedList_append(memory, self, new_node, value) ==
  [raised |-> NoError,
   memory |->
     IF memory[self].first = None
     THEN [ListNode(memory, new_node, value) EXCEPT
             ![self].size = @ + 1,
             ![self].first = new_node,
             ![self].last = new_node]
     ELSE [ListNode(memory, new_node, value) EXCEPT
             ![self].size = @ + 1,
             ![memory[self].last].next = new_node,
             ![new_node].prev = memory[self].last,
             ![self].last = new_node]]

\* LinkedList.pop: raise of a str is a TypeError; self.last.next raises when
\* the node before the last one is None
LinkedList_pop(memory, self) ==
  IF memory[self].last = None
  THEN [raised |-> "TypeError", value |-> None, memory |-> memory]
  ELSE IF memory[self].last = memory[self].first
  THEN [raised |-> NoError, value |-> memory[memory[self].last].value,
        memory |-> [memory EXCEPT ![self].size = @ - 1,
                                  ![self].first = None,
                                  ![self].last = None]]
  ELSE IF memory[memory[self].last].prev = None
  THEN [raised |-> "AttributeError", value |-> None,
        memory |-> [memory EXCEPT ![self].size = @ - 1, ![self].last = None]]
  ELSE [raised |-> NoError, value |-> memory[memory[self].last].value,
        memory |-> [memory EXCEPT
                      ![self].size = @ - 1,
                      ![self].last = memory[memory[self].last].prev,
                      ![memory[memory[self].last].prev].next = None]]

\* while index != 0: node = node.next; index -= 1: the node the loop ends
\* on, or None when node.next was read of None
RECURSIVE node_at(_, _, _)
node_at(memory, node, index) ==
  IF index = 0 THEN node
  ELSE IF node = None THEN None
  ELSE node_at(memory, memory[node].next, index - 1)

\* the rest of LinkedList.insert for an index other than 0, with node the
\* node the loop ended on
insert_before(memory, self, new_node, value, node) ==
  IF node = None \/ memory[node].prev = None
  THEN [raised |-> "AttributeError", memory |-> memory]
  ELSE [raised |-> NoError,
        memory |-> [ListNode(memory, new_node, value) EXCEPT
                      ![new_node].prev = memory[node].prev,
                      ![new_node].next = node,
                      ![memory[node].prev].next = new_node,
                      ![self].size = @ + 1]]

\* LinkedList.insert, with new_node the address of Node(value)
LinkedList_insert(memory, self, new_node, value, index) ==
  IF index > memory[self].size - 1
  THEN [raised |-> "IndexError", memory |-> memory]
  ELSE IF index = 0
  THEN IF memory[self].first = None
       THEN [raised |-> "AttributeError", memory |-> memory]
       ELSE [raised |-> NoError,
             memory |-> [ListNode(memory, new_node, value) EXCEPT
                           ![new_node].next = memory[self].first,
                           ![memory[self].first].prev = new_node,
                           ![self].first = new_node,
                           ![self].size = @ + 1]]
  ELSE insert_before(memory, self, new_node, value,
                     node_at(memory, memory[self].first, index))

\* while not node is None: if node.value == value: ...; node = node.next:
\* the node the loop returns at, or None
RECURSIVE node_of(_, _, _)
node_of(memory, node, value) ==
  IF node = None THEN None
  ELSE IF memory[node].value = value THEN node
  ELSE node_of(memory, memory[node].next, value)

\* the body of the loop of LinkedList.remove at the node that holds value
remove_node(memory, self, node) ==
  IF node = None THEN [raised |-> NoError, memory |-> memory]
  ELSE IF memory[node].prev = None
  THEN [raised |-> "AttributeError",
        memory |-> [memory EXCEPT ![self].size = @ - 1]]
  ELSE IF memory[node].next # None
  THEN [raised |-> NoError,
        memory |-> [memory EXCEPT
                      ![self].size = @ - 1,
                      ![memory[node].prev].next = memory[node].next,
                      ![memory[node].next].prev = memory[node].prev]]
  ELSE [raised |-> NoError,
        memory |-> [memory EXCEPT
                      ![self].size = @ - 1,
                      ![memory[node].prev].next = None]]

\* LinkedList.remove
LinkedList_remove(memory, self, value) ==
  IF memory[self].size = 0 THEN [raised |-> NoError, memory |-> memory]
  ELSE IF memory[self].first = None
  THEN [raised |-> "AttributeError", memory |-> memory]
  ELSE IF memory[memory[self].first].value = value
  THEN [raised |-> NoError,
        memory |->
          IF memory[memory[self].first].next # None
          THEN [memory EXCEPT
                  ![self].size = @ - 1,
                  ![self].first = memory[memory[self].first].next,
                  ![memory[memory[self].first].next].prev = None]
          ELSE [memory EXCEPT
                  ![self].size = @ - 1,
                  ![self].first = None,
                  ![self].last = None]]
  ELSE remove_node(memory, self, node_of(memory, memory[self].first, value))

\* ----------------------------------- specification of one LinkedList's calls
\* most calls made on the list
MaxListCalls == 4

\* the list the thread made
TheList == Address(Caller, 1)

InitList ==
  /\ pc = "LinkedList"
  /\ heap = LinkedList__init__(<<>>, TheList)
  /\ log = <<>>
  /\ frame = <<>>
  /\ raised = NoError
  /\ arg = None /\ obj = None /\ copy = None /\ proc = None
  /\ first = None /\ second = None /\ engine = None /\ total = None

\* the outcome r of a call on TheList
ListCalled(r) ==
  /\ heap' = r.memory
  /\ raised' = r.raised
  /\ UNCHANGED <<arg, obj, copy, proc, first, second, engine, total, frame>>

\* TheList.append(value)
ListAppend(value) ==
  /\ Len(log) < MaxListCalls
  /\ ListCalled(LinkedList_append(heap, TheList, allocate(heap, Caller), value))
  /\ log' = Append(log, "append")
  /\ pc' = "append"

\* TheList.pop()
ListPop ==
  /\ Len(log) < MaxListCalls
  /\ ListCalled(LinkedList_pop(heap, TheList))
  /\ log' = Append(log, "pop")
  /\ pc' = "pop"

\* TheList.insert(value, index)
ListInsert(value, index) ==
  /\ Len(log) < MaxListCalls
  /\ ListCalled(LinkedList_insert(heap, TheList, allocate(heap, Caller), value,
                                  index))
  /\ log' = Append(log, "insert")
  /\ pc' = "insert"

\* TheList.remove(value)
ListRemove(value) ==
  /\ Len(log) < MaxListCalls
  /\ ListCalled(LinkedList_remove(heap, TheList, value))
  /\ log' = Append(log, "remove")
  /\ pc' = "remove"

NextList ==
  \/ \E value \in {"1", "9"} : ListAppend(value)
  \/ ListPop
  \/ \E value \in {"1", "9"}, index \in -1..2 : ListInsert(value, index)
  \/ \E value \in {"1", "9"} : ListRemove(value)

SpecList == InitList /\ [][NextList]_vars

\* ------------------------------------------------------- jarvis_core.py
MAX_CONVERSATION_HISTORY == 10

\* an _add_to_history that deletes behind the tenth entry
_add_to_history_oldest_kept(history, role, content) ==
  IF Len(history) + 1 > MAX_CONVERSATION_HISTORY
  THEN SubSeq(Append(history, [role |-> role, content |-> content]),
              1, MAX_CONVERSATION_HISTORY)
  ELSE Append(history, [role |-> role, content |-> content])

\* history.append({"role": role, "content": content});
\* if len(history) > MAX: del history[:len(history) - MAX]
_add_to_history(history, role, content) ==
  IF Len(history) + 1 > MAX_CONVERSATION_HISTORY
  THEN SubSeq(Append(history, [role |-> role, content |-> content]),
              Len(history) + 1 - MAX_CONVERSATION_HISTORY + 1,
              Len(history) + 1)
  ELSE Append(history, [role |-> role, content |-> content])

\* ------------------------- specification of the calls of _add_to_history
\* most calls made
MaxAdds == 12

\* obj is the history list, log the entries added so far
InitHistory ==
  /\ pc = "history"
  /\ obj = <<>>
  /\ log = <<>>
  /\ heap = <<>> /\ frame = <<>>
  /\ raised = NoError
  /\ arg = None /\ copy = None /\ proc = None
  /\ first = None /\ second = None /\ engine = None /\ total = None

\* _add_to_history(history, role, content)
AddToHistory(role, content) ==
  /\ Len(log) < MaxAdds
  /\ obj' = _add_to_history(obj, role, content)
  /\ log' = Append(log, [role |-> role, content |-> content])
  /\ pc' = "_add_to_history"
  /\ UNCHANGED <<arg, copy, proc, raised, first, second, engine, total, heap,
                 frame>>

NextHistory ==
  \E role \in {"user", "model"}, content \in {"hello"} :
    AddToHistory(role, content)

SpecHistory == InitHistory /\ [][NextHistory]_vars

\* --------------- specification of the core thread and its command queue
\* shared_queues.py
EXIT_SIGNAL == "JARVIS_EXIT_NOW"

\* most commands waiting in command_queue that the UI put, and most stop
\* requests that reached a running thread
MaxQueued == 2
MaxStops == 2

\* log is command_queue; heap holds JARVIS_CORE_STOP_EVENT; frame holds the
\* locals of the thread _jarvis_core_thread refers to, and is empty while
\* that is None; total counts the stop requests sent to a running thread.
\* GOOGLE_API_KEY is set.  ui_update_queue, which the core only writes, is
\* left out.
InitCore ==
  /\ pc = "core"
  /\ heap = [JARVIS_CORE_STOP_EVENT |-> FALSE]
  /\ frame = <<>>
  /\ log = <<>>
  /\ total = 0
  /\ raised = NoError
  /\ arg = None /\ obj = None /\ copy = None /\ proc = None
  /\ first = None /\ second = None /\ engine = None

\* start_jarvis_core_thread: nothing while the thread is alive; otherwise
\* the event is cleared and a new thread starts at the top of the loop,
\* with an empty conversation_history
Start ==
  /\ IF \E t \in DOMAIN frame : frame[t].pc # "ended"
     THEN UNCHANGED <<heap, frame>>
     ELSE /\ heap' = [heap EXCEPT !.JARVIS_CORE_STOP_EVENT = FALSE]
          /\ frame' = [t \in {"JarvisCoreThread"} |->
                         [pc |-> "while", command_to_process |-> "",
                          conversation_history |-> <<>>,
                          exit_signal |-> FALSE, stops_before |-> total]]
  /\ pc' = "start_jarvis_core_thread"
  /\ UNCHANGED <<arg, obj, copy, proc, raised, first, second, engine, total,
                 log>>

\* stop_jarvis_core_thread: while the thread is alive, the event is set and
\* EXIT_SIGNAL is put; join(timeout=3) returns when the thread has ended or
\* the time is up, so what the UI does next may come before the thread
\* ends
Stop ==
  /\ IF \E t \in DOMAIN frame : frame[t].pc # "ended"
     THEN /\ total < MaxStops
          /\ heap' = [heap EXCEPT !.JARVIS_CORE_STOP_EVENT = TRUE]
          /\ log' = Append(log, EXIT_SIGNAL)
          /\ total' = total + 1
     ELSE UNCHANGED <<heap, log, total>>
  /\ pc' = "stop_jarvis_core_thread"
  /\ UNCHANGED <<arg, obj, copy, proc, raised, first, second, engine, frame>>

\* command_queue.put(command), by the UI
Put(command) ==
  /\ Cardinality({k \in 1..Len(log) : log[k] # EXIT_SIGNAL}) < MaxQueued
  /\ log' = Append(log, command)
  /\ pc' = "put"
  /\ UNCHANGED <<arg, obj, copy, proc, raised, first, second, engine, total,
                 heap, frame>>

\* while not JARVIS_CORE_STOP_EVENT.is_set()
While(t) ==
  /\ frame[t].pc = "while"
  /\ frame' = [frame EXCEPT
                 ![t].pc = IF heap.JARVIS_CORE_STOP_EVENT THEN "ended" ELSE "get",
                 ![t].command_to_process = ""]
  /\ UNCHANGED <<pc, arg, obj, copy, proc, raised, first, second, engine,
                 total, heap, log>>

\* command_queue.get(block=True, timeout=0.5): EXIT_SIGNAL sets the event
\* and breaks; the voice command gives what was heard, or nothing; any
\* other string is the command; an empty queue gives queue.Empty and no
\* command ("" stands for None).  Then: if the event is set, break; if
\* command_to_process, go on to process it
Get(t) ==
  /\ frame[t].pc = "get"
  /\ IF log # <<>> /\ Head(log) = EXIT_SIGNAL
     THEN /\ heap' = [heap EXCEPT !.JARVIS_CORE_STOP_EVENT = TRUE]
          /\ frame' = [frame EXCEPT ![t].pc = "ended", ![t].exit_signal = TRUE]
     ELSE /\ \E command \in (IF log = <<>> THEN {""}
                             ELSE IF Head(log) = "ACTIVATE_VOICE_INPUT_FROM_GUI"
                             THEN {"hello", ""}
                             ELSE {Head(log)}) :
               frame' = [frame EXCEPT
                           ![t].command_to_process = command,
                           ![t].pc = IF heap.JARVIS_CORE_STOP_EVENT THEN "ended"
                                     ELSE IF command # "" THEN "process"
                                     ELSE "while"]
          /\ heap' = heap
  /\ log' = IF log = <<>> THEN log ELSE Tail(log)
  /\ UNCHANGED <<pc, arg, obj, copy, proc, raised, first, second, engine,
                 total>>

\* the processing of a command: the user entry and then, on every path,
\* one model entry go to the history
Process(t) ==
  /\ frame[t].pc = "process"
  /\ frame' = [frame EXCEPT
                 ![t].pc = "while",
                 ![t].conversation_history =
                    _add_to_history(
                      _add_to_history(@, "user", frame[t].command_to_process),
                      "model", "reply")]
  /\ UNCHANGED <<pc, arg, obj, copy, proc, raised, first, second, engine,
                 total, heap, log>>

NextCore ==
  \/ Start
  \/ Stop
  \/ \E command \in {"hello", "ACTIVATE_VOICE_INPUT_FROM_GUI"} : Put(command)
  \/ \E t \in DOMAIN frame : While(t)
  \/ \E t \in DOMAIN frame : Get(t)
  \/ \E t \in DOMAIN frame : Process(t)

SpecCore == InitCore /\ [][NextCore]_vars

\* ------------------------------------------------ vocabulary of the claims
\* the value of a decimal digit character, and the character of a digit
DigitValue(c) ==
  CASE c = "0" -> 0 [] c = "1" -> 1 [] c = "2" -> 2 [] c = "3" -> 3
    [] c = "4" -> 4 [] c = "5" -> 5 [] c = "6" -> 6 [] c = "7" -> 7
    [] c = "8" -> 8 [] c = "9" -> 9

Numeral(n) ==
  CASE n = 0 -> "0" [] n = 1 -> "1" [] n = 2 -> "2" [] n = 3 -> "3"
    [] n = 4 -> "4" [] n = 5 -> "5" [] n = 6 -> "6" [] n = 7 -> "7"
    [] n = 8 -> "8" [] n = 9 -> "9"

\* the natural number a digit string denotes
RECURSIVE NatOf(_)
NatOf(digits) ==
  IF digits = <<>> THEN 0
  ELSE NatOf(SubSeq(digits, 1, Len(digits) - 1)) * 10 + DigitValue(digits[Len(digits)])

\* the decimal numeral of a natural number, without leading zeros
RECURSIVE DecimalOf(_)
DecimalOf(n) ==
  IF n < 10 THEN <<Numeral(n)>> ELSE DecimalOf(n \div 10) \o <<Numeral(n % 10)>>

RECURSIVE Pow10(_)
Pow10(k) == IF k = 0 THEN 1 ELSE 10 * Pow10(k - 1)

\* a digit string without its leading zeros, down to one digit
RECURSIVE LeadingZerosStripped(_)
LeadingZerosStripped(digits) ==
  IF Len(digits) > 1 /\ Head(digits) = "0"
  THEN LeadingZerosStripped(Tail(digits))
  ELSE digits

\* sign and magnitude of a string
SignOf(string) == IF string # <<>> /\ Head(string) = "-" THEN <<"-">> ELSE <<>>
MagnitudeOf(string) == SubSeq(string, Len(SignOf(string)) + 1, Len(string))

\* the two shapes of the specification: -?digit+ and -?digit+.digit+
DecimalDigits == {"0", "1", "2", "3", "4", "5", "6", "7", "8", "9"}
AllDigits(string) ==
  string # <<>> /\ \A i \in 1..Len(string) : string[i] \in DecimalDigits

DotPositions(string) == {i \in 1..Len(string) : string[i] = "."}

IntegerShape(string) == AllDigits(MagnitudeOf(string))

DecimalShape(string) ==
  /\ Cardinality(DotPositions(string)) = 1
  /\ \A i \in DotPositions(string) :
       /\ AllDigits(SubSeq(MagnitudeOf(string), 1, i - Len(SignOf(string)) - 1))
       /\ AllDigits(SubSeq(string, i + 1, Len(string)))

\* the part of a string before its first dot, and the part after it ("0" for
\* a string without a dot)
FirstDot(string) == CHOOSE i \in DotPositions(string) : \A j \in DotPositions(string) : i <= j
BeforeDot(string) ==
  IF DotPositions(string) = {} THEN string
  ELSE SubSeq(string, 1, FirstDot(string) - 1)
AfterDot(string) ==
  IF DotPositions(string) = {} THEN <<"0">>
  ELSE SubSeq(string, FirstDot(string) + 1, Len(string))

NonNegative(number) == Head(number._value) # "-"

\* the value a non-negative canonical string denotes, in units of 10^-w
Scaled(string, w) ==
  NatOf(BeforeDot(string)) * Pow10(w)
    + NatOf(AfterDot(string)) * Pow10(w - Len(AfterDot(string)))

\* 1 when the digit-wise sum of two fractional parts overflows their width
FractionOverflow(fa, fb) ==
  IF NatOf(fa) + NatOf(fb) >= Pow10(max(Len(fa), Len(fb))) THEN 1 ELSE 0

\* ------------------------------------------------------------------ claims
\* the addition returned what r holds
SameSum(r) == total = r.returned /\ engine.result = r.engine.result

\* C1: addition is commutative: first + second and second + first are the
\* same variant with the same canonical string.
CommutativeSum == pc = "added" => SameSum(number__add__(second, first))

\* an Int and a Float of different lengths, one of them negative, were added
CommutativeSumWitness ==
  /\ pc = "added"
  /\ first = [cls |-> "Int", _value |-> <<"9", "9">>]
  /\ second = [cls |-> "Float", _value |-> <<"-", "0", ".", "1">>]
  /\ total.cls = "Float"

\* C2: the sum of two non-negative Ints is an Int holding the exact decimal
\* sum without leading zeros.
IntSumExact ==
  (/\ pc = "added"
   /\ first.cls = "Int" /\ second.cls = "Int"
   /\ NonNegative(first) /\ NonNegative(second))
  => /\ total.cls = "Int"
     /\ total._value = DecimalOf(NatOf(first._value) + NatOf(second._value))

\* 99 + 1 = 100: the final carry became one more digit
IntSumExactWitness ==
  /\ pc = "added"
  /\ first = [cls |-> "Int", _value |-> <<"9", "9">>]
  /\ second = [cls |-> "Int", _value |-> <<"1">>]
  /\ total = [cls |-> "Int", _value |-> <<"1", "0", "0">>]

\* total denotes first + second, in units of 10^-w
SumExactAt(w) ==
  /\ Len(AfterDot(total._value)) <= w
  /\ Scaled(total._value, w) = Scaled(first._value, w) + Scaled(second._value, w)

\* C3: for non-negative operands with fractional parts of the same number
\* of digits, the result denotes the exact decimal sum: every fractional
\* digit stays at its decimal place.
FractionSumExact ==
  (/\ pc = "added"
   /\ NonNegative(first) /\ NonNegative(second)
   /\ Len(AfterDot(first._value)) = Len(AfterDot(second._value)))
  => SumExactAt(Len(AfterDot(first._value)))

\* C4: the carry leaving the fractional pass is 1 exactly when the
\* fractional digits overflow, it is added to the integer sum, and a
\* fractional result "0" leaves the integer result alone, as an Int.
CarryIntoInteger ==
  pc = "added" =>
    /\ engine.remain_result.accumulated
         = FractionOverflow(AfterDot(first._value), AfterDot(second._value))
    /\ (NonNegative(first) /\ NonNegative(second))
         => engine.integer_result
              = DecimalOf(NatOf(BeforeDot(first._value)) + NatOf(BeforeDot(second._value))
                            + FractionOverflow(AfterDot(first._value), AfterDot(second._value)))
    /\ engine.remain_result.result = <<"0">>
         => total = [cls |-> "Int", _value |-> engine.integer_result]

\* 9.9 + 0.1 gave the Int "10"
CarryIntoIntegerWitness ==
  /\ pc = "added"
  /\ first = [cls |-> "Float", _value |-> <<"9", ".", "9">>]
  /\ second = [cls |-> "Float", _value |-> <<"0", ".", "1">>]
  /\ engine.remain_result.accumulated = 1
  /\ total = [cls |-> "Int", _value |-> <<"1", "0">>]

\* C5: the result is a Float exactly when the fractional result differs from
\* "0", whatever the operand types, and otherwise an Int holding the integer
\* result alone.
VariantByFraction ==
  pc = "added" =>
    /\ total.cls = "Float" <=> engine.remain_result.result # <<"0">>
    /\ total.cls = "Int" <=> engine.remain_result.result = <<"0">>
    /\ total.cls = "Int" => total._value = engine.integer_result

\* an Int plus a Float gave a Float, as 5 + 2.5 = 7.5
VariantByFractionWitness ==
  /\ pc = "added"
  /\ first = [cls |-> "Int", _value |-> <<"9">>]
  /\ second = [cls |-> "Float", _value |-> <<"1", ".", "9">>]
  /\ total = [cls |-> "Float", _value |-> <<"1", "0", ".", "9">>]

\* C6: Int(a).value is a with its leading zeros stripped down to one digit.
IntLeadingZerosStripped ==
  (pc = "Int" /\ IntegerShape(arg))
  => /\ obj.cls = "Int"
     /\ obj._value = SignOf(arg) \o LeadingZerosStripped(MagnitudeOf(arg))

\* C7: Float(a).value has exactly the fractional digits of a, and the
\* integer part of a up to its leading zeros.
FloatKeepsFraction ==
  (pc = "Float" /\ DecimalShape(arg))
  => /\ obj.cls = "Float"
     /\ DecimalShape(obj._value)
     /\ AfterDot(obj._value) = AfterDot(arg)
     /\ SignOf(obj._value) = SignOf(arg)
     /\ LeadingZerosStripped(MagnitudeOf(BeforeDot(obj._value)))
          = LeadingZerosStripped(MagnitudeOf(BeforeDot(arg)))

\* Float("01.10") was constructed
FloatKeepsFractionWitness ==
  /\ pc = "Float"
  /\ arg = <<"0", "1", ".", "1", "0">>
  /\ obj.cls = "Float"
  /\ AfterDot(obj._value) = <<"1", "0">>

\* C8: Int of a decimal-shaped string, or of a Float, is the part before
\* the dot; Int of a Numeric Value is Int of its canonical string.
IntTruncatesAtDot ==
  /\ (pc = "Int" /\ DecimalShape(arg))
       => obj = [cls |-> "Int", _value |-> BeforeDot(arg)]
  /\ pc = "IntFrom"
       => /\ copy = Int__init__(Str(obj._value)).obj
          /\ copy = [cls |-> "Int", _value |-> BeforeDot(obj._value)]

\* Int(Float("19.99")) is Int "19"
IntTruncatesAtDotWitness ==
  /\ pc = "IntFrom"
  /\ obj = [cls |-> "Float", _value |-> <<"1", "9", ".", "9", "9">>]
  /\ copy = [cls |-> "Int", _value |-> <<"1", "9">>]

\* C9: Float of an integer-shaped string, or of an Int, is the string
\* followed by ".0"; a decimal-shaped input is stored unchanged.
FloatExtendsInt ==
  /\ (pc = "Float" /\ IntegerShape(arg))
       => obj = [cls |-> "Float", _value |-> arg \o <<".", "0">>]
  /\ (pc = "Float" /\ DecimalShape(arg))
       => obj = [cls |-> "Float", _value |-> arg]
  /\ (pc = "FloatFrom" /\ obj.cls = "Int")
       => copy = [cls |-> "Float", _value |-> obj._value \o <<".", "0">>]
  /\ (pc = "FloatFrom" /\ obj.cls = "Float") => copy = obj

\* Float(Int("19")) is Float "19.0"
FloatExtendsIntWitness ==
  /\ pc = "FloatFrom"
  /\ arg = <<"1", "9">>
  /\ obj = [cls |-> "Int", _value |-> <<"1", "9">>]
  /\ copy = [cls |-> "Float", _value |-> <<"1", "9", ".", "0">>]

\* C10: a string of neither shape makes Int(), Float() and the factory raise
\* the format error (ValueError), and nothing is produced.
InvalidRejected ==
  (/\ pc \in {"Int", "Float", "factory"}
   /\ ~IntegerShape(arg)
   /\ ~DecimalShape(arg))
  => /\ raised = "ValueError"
     /\ obj = None
     /\ proc = None

\* the factory was handed "1.1.1" and raised
InvalidRejectedWitness ==
  /\ pc = "factory"
  /\ arg = <<"1", ".", "1", ".", "1">>
  /\ raised = "ValueError"
  /\ proc = None

\* the re-join of a split: the integer part alone when the fractional part
\* is "0", the two parts around a dot otherwise
Rejoined(storage) ==
  IF storage.after_dot = <<"0">>
  THEN storage.before_dot
  ELSE join_big_number_parts(storage.before_dot, storage.after_dot)

\* C12 as stated: splitting a valid string and re-joining its parts
\* reproduces the string.
SplitRoundTrip ==
  (pc = "factory" /\ raised = NoError) => Rejoined(proc) = arg

\* C12 amended: the round trip reproduces every valid string except a
\* decimal-shaped one whose fractional part is exactly "0", for which it
\* gives the integer part alone.
SplitRoundTripButZeroFraction ==
  (pc = "factory" /\ raised = NoError)
  => IF DecimalShape(arg) /\ AfterDot(arg) = <<"0">>
     THEN Rejoined(proc) = BeforeDot(arg)
     ELSE Rejoined(proc) = arg

\* "-1.09" was split and re-joined
SplitRoundTripWitness ==
  /\ pc = "factory"
  /\ arg = <<"-", "1", ".", "0", "9">>
  /\ proc = [before_dot |-> <<"-", "1">>, after_dot |-> <<"0", "9">>]
  /\ Rejoined(proc) = arg

\* digits behind at most one leading "-"
SignedDigits(string) == AllDigits(MagnitudeOf(string))

\* C18: the factory returns (s, "0") for an integer-shaped s and the parts
\* around the dot for a decimal-shaped s; integer_part is a non-empty digit
\* string with at most one leading "-", fractional_part a non-empty digit
\* string.
SplitterParts ==
  (pc = "factory" /\ raised = NoError)
  => /\ IntegerShape(arg) => proc = [before_dot |-> arg, after_dot |-> <<"0">>]
     /\ DecimalShape(arg)
          => proc = [before_dot |-> BeforeDot(arg), after_dot |-> AfterDot(arg)]
     /\ IntegerShape(arg) \/ DecimalShape(arg)
     /\ SignedDigits(proc.before_dot)
     /\ AllDigits(proc.after_dot)

\* "-19" was split
SplitterPartsWitness ==
  /\ pc = "factory"
  /\ arg = <<"-", "1", "9">>
  /\ proc = [before_dot |-> <<"-", "1", "9">>, after_dot |-> <<"0">>]

\* the last call made
LastCall == log[Len(log)]

\* the calls before the last one
EarlierCalls == SubSeq(log, 1, Len(log) - 1)

\* the values pushed and not yet popped, oldest first, after the calls
RECURSIVE Pending(_)
Pending(calls) ==
  IF calls = <<>> THEN <<>>
  ELSE IF calls[Len(calls)].op = "add"
  THEN Append(Pending(SubSeq(calls, 1, Len(calls) - 1)), calls[Len(calls)].value)
  ELSE IF Pending(SubSeq(calls, 1, Len(calls) - 1)) = <<>>
  THEN <<>>
  ELSE SubSeq(Pending(SubSeq(calls, 1, Len(calls) - 1)), 1,
              Len(Pending(SubSeq(calls, 1, Len(calls) - 1))) - 1)

\* n adds followed by n pops
PushesThenPops(calls, n) ==
  /\ Len(calls) = 2 * n
  /\ \A i \in 1..n : calls[i].op = "add" /\ calls[n + i].op = "pop"

\* C13: a pop returns the most recently pushed value that has not been
\* popped yet; the characters of a string pushed left to right and popped
\* until the stack is empty come back right to left.
StackLIFO ==
  /\ (log # <<>> /\ LastCall.op = "pop" /\ Pending(EarlierCalls) # <<>>)
       => /\ LastCall.raised = NoError
          /\ LastCall.value = Pending(EarlierCalls)[Len(Pending(EarlierCalls))]
  /\ \A n \in 1..Len(log) :
       PushesThenPops(log, n)
         => /\ \A i \in 1..n : log[n + i].value = log[n + 1 - i].value
            /\ Stack__list__(heap, TheStack) = <<>>

\* "19" was pushed and popped back as "9", "1"
StackLIFOWitness ==
  /\ PushesThenPops(log, 2)
  /\ log[1].value = "1" /\ log[2].value = "9"
  /\ log[3].value = "9" /\ log[4].value = "1"

\* some pop before the last call failed
PopFailedEarlier == \E k \in 1..(Len(log) - 1) : log[k].raised # NoError

\* the sequence back to front
RECURSIVE Reversed(_)
Reversed(seq) ==
  IF seq = <<>> THEN <<>> ELSE Append(Reversed(Tail(seq)), Head(seq))

\* C14: a pop on an empty stack, new or emptied, raises the empty-stack
\* error and leaves the stack empty with length 0; the adds and pops after
\* it work as on any stack.
EmptyPopFails ==
  /\ (log # <<>> /\ LastCall.op = "pop" /\ Pending(EarlierCalls) = <<>>)
       => /\ LastCall.raised = "OverflowError"
          /\ Stack__len__(heap, TheStack) = 0
          /\ Stack__list__(heap, TheStack) = <<>>
  /\ PopFailedEarlier
       => /\ Stack__list__(heap, TheStack) = Reversed(Pending(log))
          /\ Stack__len__(heap, TheStack) = Len(Pending(log))
          /\ LastCall.op = "add" => LastCall.raised = NoError
          /\ (LastCall.op = "pop" /\ Pending(EarlierCalls) # <<>>)
               => /\ LastCall.raised = NoError
                  /\ LastCall.value
                       = Pending(EarlierCalls)[Len(Pending(EarlierCalls))]

\* a pop failed on the new stack and one on the emptied stack, and the add
\* and pop after each worked
EmptyPopFailsWitness ==
  /\ Len(log) = 5
  /\ log[1].op = "pop" /\ log[1].raised = "OverflowError"
  /\ log[2].op = "add" /\ log[2].value = "9"
  /\ log[3].op = "pop" /\ log[3].value = "9" /\ log[3].raised = NoError
  /\ log[4].op = "pop" /\ log[4].raised = "OverflowError"
  /\ log[5].op = "add"
  /\ Stack__len__(heap, TheStack) = 1

\* an input of a kind the constructors and the setters are meant for
AcceptedKind(value) ==
  value.cls \in {"str", "int", "bool", "float", "Int", "Float"}

\* C11: a constructor or value setter handed something that is not a
\* string, a native int, a native float or a Numeric Value fails with the
\* error a malformed string gets (ValueError).
OtherKindRejected ==
  (pc \in {"Int", "Float", "value"} /\ ~AcceptedKind(arg))
  => raised = "ValueError"

\* C15: subtract, multiply, divmod, divide, floor-divide and power signal
\* an error and never return an empty result silently.
UnsupportedSignalled ==
  pc \in UnsupportedOps => raised # NoError

\* C16: an addition, whether it returns or raises, leaves both operands as
\* they were, and what it returns is a new Numeric Value, neither operand.
AddKeepsOperands ==
  [][pc' = "__add__"
       => /\ first' = first /\ second' = second
          /\ \A name \in Names :
               Named(name) # None
                 => /\ Named(name) \in DOMAIN heap'
                    /\ heap'[Named(name)] = heap[Named(name)]
          /\ total' # None
               => /\ total' \notin {first, second}
                  /\ total' \notin DOMAIN heap
                  /\ total' \in DOMAIN heap']_vars

\* Int "9" + Float "0.9" returned a third object, Float "9.9"
AddKeepsOperandsWitness ==
  /\ pc = "__add__"
  /\ first # None /\ second # None /\ total # None
  /\ heap[first] = [cls |-> "Int", _value |-> <<"9">>]
  /\ heap[second] = [cls |-> "Float", _value |-> <<"0", ".", "9">>]
  /\ heap[total] = [cls |-> "Float", _value |-> <<"9", ".", "9">>]
  /\ total \notin {first, second}

\* C17: after any sequence of constructions, assignments that succeed or
\* fail, and additions, the getter of every Int returns a string of the
\* shape -?digit+ and the getter of every Float one of the shape
\* -?digit+.digit+.
ValuesKeepShape ==
  \A a \in DOMAIN heap :
    /\ heap[a].cls = "Int" => IntegerShape(value_of(heap[a]))
    /\ heap[a].cls = "Float" => DecimalShape(value_of(heap[a]))
    /\ heap[a].cls \in {"Int", "Float"}

\* a sum was kept as first, and an assignment to it failed afterwards
ValuesKeepShapeWitness ==
  /\ pc = "value" /\ raised = "ValueError"
  /\ log = <<"__add__">>
  /\ first # None /\ second # None
  /\ heap[first] = [cls |-> "Float", _value |-> <<"9", ".", "9">>]
  /\ heap[second].cls = "Int"

\* the steps a call of big_number_sum may take: five for every character
\* of the two values, and the steps that leave the loops and the functions
StepBound(locals) ==
  5 * (Len(locals.first_value) + Len(locals.second_value)) + 29

\* C19: an addition finishes: it has a next step until it returns, and it
\* returns within a number of steps bounded by the number of digits of the
\* operands, the loops that strip leading zeros included.
StepsBounded ==
  \A t \in DOMAIN frame :
    /\ frame[t].steps <= StepBound(frame[t])
    /\ frame[t].pc \notin {"done", "OverflowError"} => ENABLED ThreadStep(t)

\* "00" + "0.9" returned "0.9" after the strip loop took a zero off "00"
StepsBoundedWitness ==
  /\ DOMAIN frame = {"main"}
  /\ frame["main"].pc = "done"
  /\ frame["main"].first_value = <<"0", "0">>
  /\ frame["main"].second_value = <<"0", ".", "9">>
  /\ frame["main"].returned = <<"0", ".", "9">>
  /\ frame["main"].steps > Len(frame["main"].first_value)

\* the stacks on the heap
Stacks(memory) == {a \in DOMAIN memory : "size" \in DOMAIN memory[a]}

\* the stacks of the heap whose contents or length the step changed
Disturbed ==
  {a \in Stacks(heap) :
     \/ Stack__list__(heap', a) # Stack__list__(heap, a)
     \/ Stack__len__(heap', a) # Stack__len__(heap, a)}

\* C20: two additions whose stack calls interleave return what each
\* returns alone, and a call on one Stack changes neither the contents nor
\* the length of any other Stack.
ThreadsApart ==
  [][/\ Cardinality(Disturbed) <= 1
     /\ Stacks(heap') # Stacks(heap) => Disturbed = {}
     /\ \A a \in Disturbed : frame'[a.arena] # frame[a.arena]
     /\ \A t \in DOMAIN frame :
          frame'[t].pc = "done"
            => frame'[t].returned
                 = big_number_sum(frame[t].first_value,
                                  frame[t].second_value).result]_vars

\* both threads returned: "19" + "9.1" is "28.1", "0.9" + "0.1" is "1"
ThreadsApartWitness ==
  /\ DOMAIN frame = {"main", "other"}
  /\ frame["main"].pc = "done" /\ frame["other"].pc = "done"
  /\ frame["main"].first_value = <<"1", "9">>
  /\ frame["main"].returned = <<"2", "8", ".", "1">>
  /\ frame["other"].first_value = <<"0", ".", "9">>
  /\ frame["other"].returned = <<"1">>

\* the digits a step of a digit loop has just summed: those at the place of
\* the step counted from the right end of each amount, in the paired loop,
\* and the leading digit of the longer amount that is next, in the loop
\* over what is left of it
PlaceFromRight(locals) ==
  IF locals.pc = "pair_second"
  THEN DigitValue(locals.first_amount[Len(locals.first_amount)
                    - min(Len(locals.first_amount), Len(locals.second_amount))
                    + locals.i])
         + DigitValue(locals.second_amount[Len(locals.second_amount)
                    - min(Len(locals.first_amount), Len(locals.second_amount))
                    + locals.i])
  ELSE IF Len(locals.first_amount) > Len(locals.second_amount)
  THEN DigitValue(locals.first_amount[locals.i])
  ELSE DigitValue(locals.second_amount[locals.i])

\* C21: the fractional pass pairs the digits of the two fractional parts
\* from the rightmost character of each, and adds only the running carry to
\* each of the leading digits of the longer part that are left over.
RightJustifiedPairs ==
  [][\A t \in DOMAIN frame :
       (frame[t].part = "remain" /\ frame[t].pc \in {"pair_second", "rest"}
          /\ frame'[t].pc = "push")
         => frame'[t].result + 10 * frame'[t].accumulated
              = frame[t].accumulated + PlaceFromRight(frame[t])]_vars

\* 0.25 + 0.1: '5' was paired with '1' and gave 6, and '2' alone gave 2
RightJustifiedPairsWitness ==
  /\ DOMAIN frame = {"main", "other"}
  /\ frame["main"].first_value = <<"0", ".", "2", "5">>
  /\ frame["main"].second_value = <<"0", ".", "1">>
  /\ frame["main"].part = "remain"
  /\ frame["main"].pc = "push"
  /\ frame["main"].loop = "rest"
  /\ frame["main"].result = 2
  /\ Stack__list__(heap, frame["main"].result_amount) = <<6>>

\* the stack the next step of a call pops, or None when it pops none
NextPopped(locals) ==
  CASE locals.pc = "pairs" /\ locals.i > 0 -> locals.first_stack
    [] locals.pc = "pair_second" -> locals.second_stack
    [] locals.pc = "rest" /\ locals.i > 0 -> longer_stack(locals)
    [] locals.pc = "collect" /\ locals.i > 0 -> locals.result_amount
    [] OTHER -> None

\* C22: during an addition of two valid values no pop is attempted on an
\* empty stack: the stack a step is about to pop holds a value, no stack's
\* length falls below zero, and the empty-stack error never surfaces.
NoPopOfEmpty ==
  /\ \A t \in DOMAIN frame :
       /\ frame[t].pc # "OverflowError"
       /\ NextPopped(frame[t]) # None
            => Stack__len__(heap, NextPopped(frame[t])) > 0
  /\ \A a \in Stacks(heap) :
       /\ Stack__len__(heap, a) >= 0
       /\ Stack__len__(heap, a) = Len(Stack__list__(heap, a))

\* 19 + 9.1: the integer pass pushed 8 and 2, popped both again, and the
\* operand stacks are empty as well
NoPopOfEmptyWitness ==
  /\ DOMAIN frame = {"main", "other"}
  /\ frame["main"].first_value = <<"1", "9">>
  /\ frame["main"].second_value = <<"9", ".", "1">>
  /\ frame["main"].part = "integer"
  /\ frame["main"].pc = "collect" /\ frame["main"].i = 0
  /\ frame["main"].string_result = <<"2", "8">>
  /\ Stack__len__(heap, frame["main"].result_amount) = 0
  /\ Stack__len__(heap, frame["main"].first_stack) = 0
  /\ Stack__len__(heap, frame["main"].second_stack) = 0

\* C23: the sum of two negative operands starts with '-' and its magnitude
\* is the sum of the magnitudes of the operands.
SignPassedThrough ==
  (/\ pc = "added"
   /\ first.cls = "Int" /\ second.cls = "Int"
   /\ ~NonNegative(first) /\ ~NonNegative(second))
  => /\ SignOf(total._value) = <<"-">>
     /\ MagnitudeOf(total._value)
          = DecimalOf(NatOf(MagnitudeOf(first._value))
                        + NatOf(MagnitudeOf(second._value)))

\* C24: addition is total on valid Numeric Values: the string the addition
\* engine produces is integer-shaped or decimal-shaped, and first + second
\* is an Int or a Float holding a string of that shape, never None.
AdditionTotal ==
  pc = "added" =>
    /\ IntegerShape(engine.result) \/ DecimalShape(engine.result)
    /\ total # None
    /\ total.cls \in {"Int", "Float"}
    /\ total.cls = "Int" => IntegerShape(total._value)
    /\ total.cls = "Float" => DecimalShape(total._value)

\* a negative Float and an Int written with leading zeros gave a Float
AdditionTotalWitness ==
  /\ pc = "added"
  /\ first = Float__init__(Str(<<"-", "0", ".", "1">>)).obj
  /\ second = Int__init__(Str(<<"0", "0", "9">>)).obj
  /\ DecimalShape(engine.result)
  /\ total.cls = "Float"

\* the values of a call have no sign
Unsigned_operands(locals) ==
  Head(locals.first_value) # "-" /\ Head(locals.second_value) # "-"

\* C25: at every step of the fractional pass and of the integer pass on
\* non-negative operands the digit emitted to the result stack is in 0..9
\* and the carry is 0 or 1, the carry the fractional pass hands to the
\* integer pass included.
DigitAndCarryInRange ==
  \A t \in DOMAIN frame :
    Unsigned_operands(frame[t]) =>
      /\ frame[t].result \in 0..9
      /\ frame[t].accumulated \in {0, 1}
      /\ frame[t].remain_result # None
           => frame[t].remain_result.accumulated \in {0, 1}
      /\ frame[t].result_amount # None =>
           \A k \in 1..Len(Stack__list__(heap, frame[t].result_amount)) :
             Stack__list__(heap, frame[t].result_amount)[k] \in 0..9

\* 0.9 + 0.1: the fractional pass emitted 0 and handed the carry 1 to the
\* integer pass, which is about to push its digit 1
DigitAndCarryInRangeWitness ==
  /\ DOMAIN frame = {"main", "other"}
  /\ frame["main"].first_value = <<"0", ".", "9">>
  /\ frame["main"].second_value = <<"0", ".", "1">>
  /\ frame["main"].remain_result = [result |-> <<"0">>, accumulated |-> 1]
  /\ frame["main"].part = "integer"
  /\ frame["main"].pc = "push"
  /\ frame["main"].result = 1
  /\ frame["main"].accumulated = 0

\* the calls of the log that are op and raised nothing
Successful(op) == {k \in 1..Len(log) : log[k].op = op /\ log[k].raised = NoError}

\* the length of the stack is the successful adds less the successful pops,
\* is not negative, and is the number of nodes reachable from the pointer
LengthCounts(memory) ==
  /\ Stack__len__(memory, TheStack)
       = Cardinality(Successful("add")) - Cardinality(Successful("pop"))
  /\ Stack__len__(memory, TheStack) >= 0
  /\ Stack__len__(memory, TheStack) = Len(Stack__list__(memory, TheStack))

\* C26: after any sequence of add, pop and find the length of a Stack is
\* the successful adds less the successful pops, never negative and equal
\* to the number of nodes reachable from the top pointer; find(v) is true
\* exactly when v is on the stack and changes neither contents nor length.
StackCounts ==
  /\ [](/\ LengthCounts(heap)
        /\ pc = "find" =>
             (total <=> \E k \in 1..Len(Stack__list__(heap, TheStack)) :
                          Stack__list__(heap, TheStack)[k] = arg))
  /\ [][pc' = "find" =>
          /\ Stack__list__(heap', TheStack) = Stack__list__(heap, TheStack)
          /\ Stack__len__(heap', TheStack) = Stack__len__(heap, TheStack)
          /\ log' = log]_vars

\* after add "1", add "9", a failed pop earlier and one pop, find("1") is
\* true on the stack that holds "1" alone
StackCountsWitness ==
  /\ pc = "find" /\ arg = "1" /\ total = TRUE
  /\ Len(log) = 4
  /\ log[1].op = "pop" /\ log[1].raised = "OverflowError"
  /\ log[2].value = "1" /\ log[3].value = "9" /\ log[4].op = "pop"
  /\ Stack__list__(heap, TheStack) = <<"1">>
  /\ Stack__len__(heap, TheStack) = 1

\* C27: assigning a string of neither shape to the value of an existing Int
\* or Float fails with the format error and leaves the stored string as it
\* was: a read of value after it returns the old string.
FailedAssignmentKeeps ==
  [][(pc' = "value" /\ arg'.cls = "str" /\ ~is_number(arg'.str))
       => /\ raised' = "ValueError"
          /\ first' = first /\ second' = second
          /\ DOMAIN heap' = DOMAIN heap
          /\ \A a \in DOMAIN heap :
               /\ heap'[a].cls = heap[a].cls
               /\ value_of(heap'[a]) = value_of(heap[a])]_vars

\* "1a" was assigned to an Int or a Float while first held "0.9" and second
\* "9", and both still do
FailedAssignmentKeepsWitness ==
  /\ pc = "value" /\ raised = "ValueError"
  /\ arg = Str(<<"1", "a">>)
  /\ first # None /\ second # None
  /\ value_of(heap[first]) = <<"0", ".", "9">>
  /\ value_of(heap[second]) = <<"9">>

\* the nodes reachable from node by next, at most fuel of them
RECURSIVE Chain(_, _, _)
Chain(memory, node, fuel) ==
  IF node = None \/ fuel = 0 THEN <<>>
  ELSE <<node>> \o Chain(memory, memory[node].next, fuel - 1)

\* the nodes of the list, from first
ListChain == Chain(heap, heap[TheList].first, Cardinality(DOMAIN heap))

\* C28: after any sequence of append, insert, remove and pop, the length of
\* a LinkedList is the number of nodes reachable from first by next, last
\* is the final node of that chain, first and last are both None exactly
\* when the list is empty, and every node's prev is the node before it.
ListLinked ==
  /\ heap[TheList].size = Len(ListChain)
  /\ ListChain # <<>> => heap[TheList].last = ListChain[Len(ListChain)]
  /\ heap[TheList].size = 0
       <=> (heap[TheList].first = None /\ heap[TheList].last = None)
  /\ \A k \in 1..Len(ListChain) :
       heap[ListChain[k]].prev = IF k = 1 THEN None ELSE ListChain[k - 1]

\* C30: after any sequence of _add_to_history calls the history holds at
\* most MAX_CONVERSATION_HISTORY entries, and they are the entries added
\* last, in the order they were added.
HistoryBounded ==
  /\ Len(obj) <= MAX_CONVERSATION_HISTORY
  /\ Len(obj) = min(Len(log), MAX_CONVERSATION_HISTORY)
  /\ obj = SubSeq(log, Len(log) - Len(obj) + 1, Len(log))

\* twelve entries were added, and the history holds the last ten: the
\* second, a user entry, is gone and the third, a model entry, is the oldest
HistoryBoundedWitness ==
  /\ pc = "_add_to_history"
  /\ Len(log) = 12
  /\ Len(obj) = 10
  /\ log[2].role = "user" /\ log[3].role = "model"
  /\ obj[1].role = "model" /\ obj[10] = log[12]

\* C29: a core thread started after an earlier stop request keeps running
\* for as long as no new stop is requested: no EXIT_SIGNAL that the earlier
\* request left in command_queue ends it.
RestartSurvives ==
  \A t \in DOMAIN frame :
    (frame[t].stops_before > 0 /\ frame[t].stops_before = total)
      => frame[t].pc # "ended"

====
